---- MODULE Spec2Model ----
(***************************************************************************)
(* A state-machine model of src/engine.py: the three training runners      *)
(* (train_warm_up, train_one_epoch, train_one_epoch_FIESTA), the slice to  *)
(* volume reassembly of prediction_wrapper and the score aggregation of    *)
(* eval_list_wrapper.  One action per statement group of the source; the   *)
(* external collaborators (model, criterion, data loader, optimizer,       *)
(* GradScaler, monai's compute_meandice) are inputs fixed by Init.         *)
(***************************************************************************)
EXTENDS Integers, Sequences, FiniteSets, TLC

(***************************************************************************)
(* Bounds of the model.                                                    *)
(***************************************************************************)
MaxBatches == 2
MaxWarmup == 3
MaxStart == 1
MaxLossVal == 2
MaxWeight == 2
MaxGroups == 2
NPix == 2
MaxLabel == 2
UGScale == 2
MaxScans == 3
MaxFrames == 3
MaxVols == 4
ScoreScale == 2

(***************************************************************************)
(* Program constants.                                                      *)
(***************************************************************************)
visual_freq == 200

(* Python's None and an unbound local; NoneStr where the other values of   *)
(* the variable are strings.                                               *)
None == [none |-> TRUE]
NoneStr == "None"
NaN == [nonfinite |-> "nan"]
Inf == [nonfinite |-> "inf"]

(***************************************************************************)
(* Python floats that matter are modelled as exact rationals <<num, den>>  *)
(* with den > 0, plus the two non-finite values NaN and Inf.               *)
(***************************************************************************)
TrueDiv(a, b) == <<a, b>>
RatMulInt(r, k) == <<r[1] * k, r[2]>>
RatEq(a, b) == a[1] * b[2] = b[1] * a[2]
RatLt(a, b) == a[1] * b[2] < b[1] * a[2]
RatAdd(a, b) == <<a[1] * b[2] + b[1] * a[2], a[2] * b[2]>>
RatDivInt(r, n) == <<r[1], r[2] * n>>
IsFinite(x) == x # NaN /\ x # Inf

(* Faulty variant of NpDiv: a zero divisor is guarded and gives 0.          *)
GuardedDiv(r, n) == IF n = 0 THEN <<0, 1>> ELSE RatDivInt(r, n)

(* numpy scalar division: a zero divisor gives nan (0/0) or inf (x/0) and  *)
(* a RuntimeWarning, never an exception.                                   *)
NpDiv(r, n) ==
    IF n = 0 THEN (IF r[1] = 0 THEN NaN ELSE Inf) ELSE RatDivInt(r, n)

(* x < y for floats: every comparison with nan is False.                   *)
FloatLt(x, y) ==
    IF x = NaN THEN FALSE ELSE IF x = Inf THEN FALSE ELSE RatLt(x, y)

(***************************************************************************)
(* Loss names.  A name is a sequence of tokens so that k + '_aug' is a     *)
(* concatenation, as in the source.                                        *)
(***************************************************************************)
KeyOrder == << <<"ce">>, <<"dice">> >>
Keys == {KeyOrder[i] : i \in 1..Len(KeyOrder)}
Suffix(k, s) == k \o <<s>>

RECURSIVE SeqSum(_)
SeqSum(s) == IF s = <<>> THEN 0 ELSE Head(s) + SeqSum(Tail(s))

(* dict.keys() of a loss dict, in the criterion's insertion order.         *)
KeysOf(d) == SelectSeq(KeyOrder, LAMBDA k : k \in DOMAIN d)

(* Faulty variant of SummedKeys: names without a weight are skipped, as in  *)
(* the FIESTA runner.                                                      *)
SummedKeysFiltered(L, W) == SelectSeq(KeysOf(L), LAMBDA k : k \in DOMAIN W)

(* Lines 41, 77, 85: the generator visits every key of the loss dict.      *)
SummedKeys(L, W) == KeysOf(L)

(* sum(L[k] * W[k] for k in L.keys()): the generator raises KeyError at a  *)
(* key of L that W does not hold.                                          *)
HasMissingKey(L, W) ==
    \E i \in 1..Len(SummedKeys(L, W)) : SummedKeys(L, W)[i] \notin DOMAIN W
UnfilteredSum(L, W) ==
    SeqSum([i \in 1..Len(SummedKeys(L, W)) |->
              L[SummedKeys(L, W)[i]] * W[SummedKeys(L, W)[i]]])

(* Faulty variant of AccumulateGrad: the gradients held are cleared before  *)
(* the backward call.                                                      *)
OverwriteGrad(g, branch) == {branch}

(* loss.backward() adds the branch's gradients to those already held.      *)
AccumulateGrad(g, branch) == g \cup {branch}

Branches == {"clean", "aug", "mix"}

VARIABLES
    fn, pc, err, ret,
    data_loader, ug_out, criterion, learning_rate, warmup_iteration,
    start_iteration, max_iteration, grad_scaler, visdir,
    param_groups, grads, cur_iteration, bi, samples,
    loss_dict, aug_loss_dict, mixed_loss_dict, losses, aug_losses, mix_losses,
    all_loss_dict, visual_dict, UG, coverage, mixed_var,
    ops, steps, batches, step_log, dumps, mix_rule, metric,
    test_loader, save_prediction, idx, slice_idx, scan_id_full, nframe,
    heap, curr_pred, curr_gth, out_prediction_list,
    vol_list, nclass, dsc_table, tables_by_domain, domain_order, error_dict

args == <<fn, data_loader, ug_out, criterion, learning_rate, warmup_iteration,
          start_iteration, max_iteration, grad_scaler, visdir>>
lossLocals == <<loss_dict, aug_loss_dict, mixed_loss_dict, losses, aug_losses,
                mix_losses, all_loss_dict, metric>>
blendLocals == <<UG, coverage, mixed_var, mix_rule>>
predVars == <<test_loader, save_prediction, idx, slice_idx, scan_id_full, nframe,
              heap, curr_pred, curr_gth, out_prediction_list>>
evalVars == <<vol_list, nclass, dsc_table, tables_by_domain, domain_order,
              error_dict>>
trainVars == <<args, lossLocals, blendLocals, param_groups, grads, cur_iteration,
               bi, samples, visual_dict, ops, steps, batches, step_log, dumps>>
vars == <<pc, err, ret, trainVars, predVars, evalVars>>

Raise(e) == pc' = "raised" /\ err' = e /\ ret' = ret
Goto(p) == pc' = p /\ err' = err /\ ret' = ret
Return(v) == pc' = "returned" /\ err' = err /\ ret' = v

(***************************************************************************)
(* train_warm_up                                                           *)
(***************************************************************************)

(* Line 35: the warm-up learning rate of one parameter group.              *)
WarmupLr(it, W, base_lr, lr_scale) ==
    RatMulInt(RatMulInt(TrueDiv(it, W), base_lr), lr_scale)

(* Lines 29-37: the next batch of the loader; the counter is incremented   *)
(* and every parameter group's lr is set before the forward pass.          *)
WarmFetch ==
    /\ fn = "train_warm_up" /\ pc = "warm_for"
    /\ bi < Len(data_loader)
    /\ bi' = bi + 1
    /\ samples' = data_loader[bi + 1]
    /\ cur_iteration' = cur_iteration + 1
    /\ param_groups' =
         [g \in 1..Len(param_groups) |->
            [param_groups[g] EXCEPT
               !.lr = WarmupLr(cur_iteration + 1, warmup_iteration,
                               learning_rate, param_groups[g].lr_scale)]]
    /\ ops' = <<>>
    /\ Goto("warm_loss")
    /\ UNCHANGED <<args, lossLocals, blendLocals, grads, visual_dict, steps,
                   batches, step_log, dumps, predVars, evalVars>>

(* Lines 28, 51: the loader is exhausted before the counter reached the    *)
(* target; the while loop iterates the loader again from its start.        *)
WarmRestart ==
    /\ fn = "train_warm_up" /\ pc = "warm_for"
    /\ bi >= Len(data_loader)
    /\ bi' = 0
    /\ Goto("warm_for")
    /\ UNCHANGED <<args, lossLocals, blendLocals, param_groups, grads,
                   cur_iteration, samples, visual_dict, ops, steps, batches,
                   step_log, dumps, predVars, evalVars>>

(* Lines 39-41: forward pass, loss dict, weighted sum over all its keys.   *)
WarmLoss ==
    /\ fn = "train_warm_up" /\ pc = "warm_loss"
    /\ LET L == criterion.out[bi]["clean"] IN
         /\ loss_dict' = L
         /\ IF HasMissingKey(L, criterion.weight_dict)
            THEN Raise("KeyError") /\ losses' = losses
            ELSE Goto("warm_zero") /\ losses' = UnfilteredSum(L, criterion.weight_dict)
    /\ UNCHANGED <<args, aug_loss_dict, mixed_loss_dict, aug_losses, mix_losses,
                   all_loss_dict, metric, blendLocals, param_groups, grads,
                   cur_iteration, bi, samples, visual_dict, ops, steps, batches,
                   step_log, dumps, predVars, evalVars>>

(* Line 42. *)
WarmZeroGrad ==
    /\ fn = "train_warm_up" /\ pc = "warm_zero"
    /\ grads' = {}
    /\ ops' = Append(ops, "zero_grad")
    /\ Goto("warm_back")
    /\ UNCHANGED <<args, lossLocals, blendLocals, param_groups, cur_iteration,
                   bi, samples, visual_dict, steps, batches, step_log, dumps,
                   predVars, evalVars>>

(* Line 43. *)
WarmBackward ==
    /\ fn = "train_warm_up" /\ pc = "warm_back"
    /\ grads' = AccumulateGrad(grads, "clean")
    /\ ops' = Append(ops, "backward_clean")
    /\ Goto("warm_step")
    /\ UNCHANGED <<args, lossLocals, blendLocals, param_groups, cur_iteration,
                   bi, samples, visual_dict, steps, batches, step_log, dumps,
                   predVars, evalVars>>

(* What an optimizer step is recorded with: the counter, the gradients it  *)
(* sees and the learning rate of every group.                              *)
StepRecord ==
    [it |-> cur_iteration, grads |-> grads,
     lr |-> [g \in 1..Len(param_groups) |-> param_groups[g].lr]]

(* Line 44. *)
WarmStep ==
    /\ fn = "train_warm_up" /\ pc = "warm_step"
    /\ ops' = Append(ops, "step")
    /\ steps' = steps + 1
    /\ step_log' = Append(step_log, StepRecord)
    /\ Goto("warm_check")
    /\ UNCHANGED <<args, lossLocals, blendLocals, param_groups, grads,
                   cur_iteration, bi, samples, visual_dict, batches, dumps,
                   predVars, evalVars>>

(* Faulty variant of WarmupDone: the test is strict.                       *)
WarmupDoneLate(it, W) == it > W

(* Line 48: the warm-up ends once the counter has reached the target.      *)
WarmupDone(it, W) == it >= W

(* Lines 46-50: metric update, then the return test.                       *)
WarmCheck ==
    /\ fn = "train_warm_up" /\ pc = "warm_check"
    /\ metric' = loss_dict
    /\ batches' = batches + 1
    /\ IF WarmupDone(cur_iteration, warmup_iteration)
       THEN Return(cur_iteration)
       ELSE Goto("warm_for")
    /\ UNCHANGED <<args, loss_dict, aug_loss_dict, mixed_loss_dict, losses,
                   aug_losses, mix_losses, all_loss_dict, blendLocals,
                   param_groups, grads, cur_iteration, bi, samples, visual_dict,
                   ops, steps, step_log, dumps, predVars, evalVars>>

NextWarm ==
    \/ WarmFetch
    \/ WarmRestart
    \/ WarmLoss
    \/ WarmZeroGrad
    \/ WarmBackward
    \/ WarmStep
    \/ WarmCheck

(***************************************************************************)
(* train_one_epoch                                                         *)
(***************************************************************************)

(* Lines 66-72. *)
EpochFetch ==
    /\ fn = "train_one_epoch" /\ pc = "epoch_for"
    /\ bi < Len(data_loader)
    /\ bi' = bi + 1
    /\ samples' = data_loader[bi + 1]
    /\ ops' = <<>>
    /\ Goto("epoch_loss")
    /\ UNCHANGED <<args, lossLocals, blendLocals, param_groups, grads,
                   cur_iteration, visual_dict, steps, batches, step_log, dumps,
                   predVars, evalVars>>

(* Lines 75-77 and 83-85: the same weighted sum with and without autocast. *)
EpochLoss ==
    /\ fn = "train_one_epoch" /\ pc = "epoch_loss"
    /\ LET L == criterion.out[bi]["clean"] IN
         /\ loss_dict' = L
         /\ IF HasMissingKey(L, criterion.weight_dict)
            THEN Raise("KeyError") /\ losses' = losses
            ELSE Goto("epoch_zero") /\ losses' = UnfilteredSum(L, criterion.weight_dict)
    /\ UNCHANGED <<args, aug_loss_dict, mixed_loss_dict, aug_losses, mix_losses,
                   all_loss_dict, metric, blendLocals, param_groups, grads,
                   cur_iteration, bi, samples, visual_dict, ops, steps, batches,
                   step_log, dumps, predVars, evalVars>>

(* Lines 78 and 86. *)
EpochZeroGrad ==
    /\ fn = "train_one_epoch" /\ pc = "epoch_zero"
    /\ grads' = {}
    /\ ops' = Append(ops, "zero_grad")
    /\ Goto("epoch_back")
    /\ UNCHANGED <<args, lossLocals, blendLocals, param_groups, cur_iteration,
                   bi, samples, visual_dict, steps, batches, step_log, dumps,
                   predVars, evalVars>>

(* Lines 79 and 87: backward of the loss, scaled when a scaler is given.   *)
EpochBackward ==
    /\ fn = "train_one_epoch" /\ pc = "epoch_back"
    /\ grads' = AccumulateGrad(grads, "clean")
    /\ ops' = ops \o (IF grad_scaler THEN <<"scale">> ELSE <<>>) \o <<"backward_clean">>
    /\ Goto("epoch_step")
    /\ UNCHANGED <<args, lossLocals, blendLocals, param_groups, cur_iteration,
                   bi, samples, visual_dict, steps, batches, step_log, dumps,
                   predVars, evalVars>>

(* Lines 80 and 88-89: optimizer.step(), or grad_scaler.step(optimizer)    *)
(* followed by grad_scaler.update().                                       *)
EpochStep ==
    /\ fn = "train_one_epoch" /\ pc = "epoch_step"
    /\ ops' = ops \o <<"step">> \o (IF grad_scaler THEN <<"scaler_update">> ELSE <<>>)
    /\ steps' = steps + 1
    /\ step_log' = Append(step_log, StepRecord)
    /\ Goto("epoch_count")
    /\ UNCHANGED <<args, lossLocals, blendLocals, param_groups, grads,
                   cur_iteration, bi, samples, visual_dict, batches, dumps,
                   predVars, evalVars>>

(* Faulty variant of EpochBudgetReached: the test is strict.               *)
EpochBudgetLate(it, budget) == it > budget /\ budget > 0

(* Line 94: the budget test of train_one_epoch, on the incremented counter. *)
EpochBudgetReached(it, budget) == it >= budget /\ budget > 0

(* Lines 91-95: metric update, increment, then the budget test.            *)
EpochCount ==
    /\ fn = "train_one_epoch" /\ pc = "epoch_count"
    /\ metric' = loss_dict
    /\ batches' = batches + 1
    /\ cur_iteration' = cur_iteration + 1
    /\ IF EpochBudgetReached(cur_iteration + 1, max_iteration)
       THEN Goto("epoch_end")
       ELSE Goto("epoch_for")
    /\ UNCHANGED <<args, loss_dict, aug_loss_dict, mixed_loss_dict, losses,
                   aug_losses, mix_losses, all_loss_dict, blendLocals,
                   param_groups, grads, bi, samples, visual_dict, ops, steps,
                   step_log, dumps, predVars, evalVars>>

(* Line 66, loader exhausted: the for loop ends.                           *)
EpochExhausted ==
    /\ fn = "train_one_epoch" /\ pc = "epoch_for"
    /\ bi >= Len(data_loader)
    /\ Goto("epoch_end")
    /\ UNCHANGED <<trainVars, predVars, evalVars>>

(* Lines 97-99. *)
EpochEnd ==
    /\ fn = "train_one_epoch" /\ pc = "epoch_end"
    /\ Return(cur_iteration)
    /\ UNCHANGED <<trainVars, predVars, evalVars>>

NextEpoch ==
    \/ EpochFetch
    \/ EpochLoss
    \/ EpochZeroGrad
    \/ EpochBackward
    \/ EpochStep
    \/ EpochCount
    \/ EpochExhausted
    \/ EpochEnd

(***************************************************************************)
(* train_one_epoch_FIESTA                                                  *)
(***************************************************************************)

EmptyDict == [k \in {} |-> 0]

(* Lines 135, 152, 187: the keys that enter the weighted sum.              *)
SharedKeys(L, W) == SelectSeq(KeysOf(L), LAMBDA k : k \in DOMAIN W)

(* sum(L[k] * W[k] for k in L.keys() if k in W); with no shared key the    *)
(* result is the plain integer 0 that sum() starts from.                   *)
FilteredSum(L, W) ==
    SeqSum([i \in 1..Len(SharedKeys(L, W)) |->
              L[SharedKeys(L, W)[i]] * W[SharedKeys(L, W)[i]]])
IsPlainInt(L, W) == SharedKeys(L, W) = <<>>

(* Faulty variant of KeepsKey: the aggregation loop keeps every name.       *)
KeepsEveryKey(k, W) == TRUE

(* Line 203: whether the aggregation loop keeps loss name k.               *)
KeepsKey(k, W) == k \in DOMAIN W

(* Lines 202-206: the loop over the clean branch's loss names.             *)
RECURSIVE AggregateFrom(_, _, _, _, _, _)
AggregateFrom(ks, L, A, M, W, acc) ==
    IF ks = <<>> THEN acc
    ELSE LET k == Head(ks) IN
         IF ~KeepsKey(k, W) THEN AggregateFrom(Tail(ks), L, A, M, W, acc)
         ELSE AggregateFrom(Tail(ks), L, A, M, W,
                  (Suffix(k, "_mix") :> M[k]) @@ (Suffix(k, "_aug") :> A[k])
                  @@ (k :> L[k]) @@ acc)

(* Lines 205-206 look the kept names up in the other two branches' dicts.  *)
AggregateMisses(L, A, M, W) ==
    \E i \in 1..Len(KeysOf(L)) :
        /\ KeepsKey(KeysOf(L)[i], W)
        /\ (KeysOf(L)[i] \notin DOMAIN A \/ KeysOf(L)[i] \notin DOMAIN M)

(* Faulty variant of Binarize: the labels are left as they are.             *)
KeepLabels(gt) == gt

(* Line 173: gt = np.where(gt > 1, 1, gt).                                 *)
Binarize(gt) == [p \in DOMAIN gt |-> IF gt[p] > 1 THEN 1 ELSE gt[p]]

(* Lines 174-179: uncer_sum / gt_idx_len; UG values are in units of        *)
(* 1/UGScale.                                                              *)
GtIdxLen(gt) == Cardinality({p \in DOMAIN gt : gt[p] = 1})
UncerSum(gt, ug) == <<SeqSum([p \in DOMAIN gt |-> gt[p] * ug[p]]), UGScale>>
CoverageRatio(gt, ug) == NpDiv(UncerSum(gt, ug), GtIdxLen(gt))

(* Line 179: the blend is taken when the ratio is below one half.          *)
TakesBlend(cov) == FloatLt(cov, <<1, 2>>)

(* Lines 180 and 182, per pixel.                                           *)
MixBlend(c, a, u) == <<c * u + a * (UGScale - u), UGScale>>
MixSum(c, a) == <<c + a, 1>>

(* Lines 122-128: a snapshot dict is started when the counter is a         *)
(* multiple of visual_freq.                                                *)
StartsSnapshot(it) == it % visual_freq = 0

(* Lines 114-128. *)
FiestaFetch ==
    /\ fn = "train_one_epoch_FIESTA" /\ pc = "f_for"
    /\ bi < Len(data_loader)
    /\ bi' = bi + 1
    /\ samples' = data_loader[bi + 1]
    /\ visual_dict' = IF StartsSnapshot(cur_iteration)
                      THEN <<"CFAT", "LFAT", "GT">> ELSE None
    /\ ops' = <<>>
    /\ Goto("f_zero")
    /\ UNCHANGED <<args, lossLocals, blendLocals, param_groups, grads,
                   cur_iteration, steps, batches, step_log, dumps, predVars,
                   evalVars>>

(* Line 132. *)
FiestaZeroGrad ==
    /\ fn = "train_one_epoch_FIESTA" /\ pc = "f_zero"
    /\ grads' = {}
    /\ ops' = Append(ops, "zero_grad")
    /\ Goto("f_clean_loss")
    /\ UNCHANGED <<args, lossLocals, blendLocals, param_groups, cur_iteration,
                   bi, samples, visual_dict, steps, batches, step_log, dumps,
                   predVars, evalVars>>

(* Lines 133-135. *)
FiestaCleanLoss ==
    /\ fn = "train_one_epoch_FIESTA" /\ pc = "f_clean_loss"
    /\ loss_dict' = criterion.out[bi]["clean"]
    /\ losses' = FilteredSum(criterion.out[bi]["clean"], criterion.weight_dict)
    /\ Goto("f_clean_back")
    /\ UNCHANGED <<args, aug_loss_dict, mixed_loss_dict, aug_losses, mix_losses,
                   all_loss_dict, metric, blendLocals, param_groups, grads,
                   cur_iteration, bi, samples, visual_dict, ops, steps, batches,
                   step_log, dumps, predVars, evalVars>>

(* A backward call of one branch: the plain integer 0 has no backward().   *)
Backward(branch, L, next) ==
    IF IsPlainInt(L, criterion.weight_dict)
    THEN Raise("AttributeError") /\ UNCHANGED <<grads, ops>>
    ELSE /\ grads' = AccumulateGrad(grads, branch)
         /\ ops' = Append(ops, "backward_" \o branch)
         /\ Goto(next)

AddPanels(vd, panels) == IF vd = None THEN None ELSE vd \o panels

(* Lines 136-147: clean backward, then the clean uncertainty map.          *)
FiestaCleanBackward ==
    /\ fn = "train_one_epoch_FIESTA" /\ pc = "f_clean_back"
    /\ Backward("clean", loss_dict, "f_aug_loss")
    /\ visual_dict' = IF IsPlainInt(loss_dict, criterion.weight_dict)
                      THEN visual_dict
                      ELSE AddPanels(visual_dict, <<"CFAT_pred", "uncertainty_map_CFAT">>)
    /\ UNCHANGED <<args, lossLocals, blendLocals, param_groups, cur_iteration,
                   bi, samples, steps, batches, step_log, dumps, predVars,
                   evalVars>>

(* Lines 149-152. *)
FiestaAugLoss ==
    /\ fn = "train_one_epoch_FIESTA" /\ pc = "f_aug_loss"
    /\ aug_loss_dict' = criterion.out[bi]["aug"]
    /\ aug_losses' = FilteredSum(criterion.out[bi]["aug"], criterion.weight_dict)
    /\ Goto("f_aug_back")
    /\ UNCHANGED <<args, loss_dict, mixed_loss_dict, losses, mix_losses,
                   all_loss_dict, metric, blendLocals, param_groups, grads,
                   cur_iteration, bi, samples, visual_dict, ops, steps, batches,
                   step_log, dumps, predVars, evalVars>>

(* Lines 153-164: augmented backward, then its uncertainty map.            *)
FiestaAugBackward ==
    /\ fn = "train_one_epoch_FIESTA" /\ pc = "f_aug_back"
    /\ Backward("aug", aug_loss_dict, "f_blend")
    /\ visual_dict' = IF IsPlainInt(aug_loss_dict, criterion.weight_dict)
                      THEN visual_dict
                      ELSE AddPanels(visual_dict, <<"LFAT_pred", "uncertainty_map_LFAT">>)
    /\ UNCHANGED <<args, lossLocals, blendLocals, param_groups, cur_iteration,
                   bi, samples, steps, batches, step_log, dumps, predVars,
                   evalVars>>

(* Lines 167-184: the fused guidance map, the coverage ratio and the one   *)
(* blend decision of the batch.                                            *)
FiestaBlend ==
    /\ fn = "train_one_epoch_FIESTA" /\ pc = "f_blend"
    /\ LET ug == ug_out[bi]
           gt == Binarize(samples.labels)
           cov == CoverageRatio(gt, ug)
       IN /\ UG' = ug
          /\ coverage' = cov
          /\ IF TakesBlend(cov)
             THEN /\ mix_rule' = "blend"
                  /\ mixed_var' = [p \in 1..Len(ug) |->
                        MixBlend(samples.images[p], samples.aug_images[p], ug[p])]
             ELSE /\ mix_rule' = "sum"
                  /\ mixed_var' = [p \in 1..Len(ug) |->
                        MixSum(samples.images[p], samples.aug_images[p])]
    /\ Goto("f_mix_loss")
    /\ UNCHANGED <<args, lossLocals, param_groups, grads, cur_iteration, bi,
                   samples, visual_dict, ops, steps, batches, step_log, dumps,
                   predVars, evalVars>>

(* Lines 185-187. *)
FiestaMixLoss ==
    /\ fn = "train_one_epoch_FIESTA" /\ pc = "f_mix_loss"
    /\ mixed_loss_dict' = criterion.out[bi]["mix"]
    /\ mix_losses' = FilteredSum(criterion.out[bi]["mix"], criterion.weight_dict)
    /\ Goto("f_mix_back")
    /\ UNCHANGED <<args, loss_dict, aug_loss_dict, losses, aug_losses,
                   all_loss_dict, metric, blendLocals, param_groups, grads,
                   cur_iteration, bi, samples, visual_dict, ops, steps, batches,
                   step_log, dumps, predVars, evalVars>>

(* Lines 188-197: mixed backward, then the remaining snapshot panels.      *)
FiestaMixBackward ==
    /\ fn = "train_one_epoch_FIESTA" /\ pc = "f_mix_back"
    /\ Backward("mix", mixed_loss_dict, "f_step")
    /\ visual_dict' = IF IsPlainInt(mixed_loss_dict, criterion.weight_dict)
                      THEN visual_dict
                      ELSE AddPanels(visual_dict, <<"mixed_img", "mixed_pred", "combined-UG">>)
    /\ UNCHANGED <<args, lossLocals, blendLocals, param_groups, cur_iteration,
                   bi, samples, steps, batches, step_log, dumps, predVars,
                   evalVars>>

(* Line 199. *)
FiestaStep ==
    /\ fn = "train_one_epoch_FIESTA" /\ pc = "f_step"
    /\ ops' = Append(ops, "step")
    /\ steps' = steps + 1
    /\ step_log' = Append(step_log, StepRecord)
    /\ Goto("f_aggregate")
    /\ UNCHANGED <<args, lossLocals, blendLocals, param_groups, grads,
                   cur_iteration, bi, samples, visual_dict, batches, dumps,
                   predVars, evalVars>>

(* Lines 201-209: the aggregated record and the metric update.             *)
FiestaAggregate ==
    /\ fn = "train_one_epoch_FIESTA" /\ pc = "f_aggregate"
    /\ IF AggregateMisses(loss_dict, aug_loss_dict, mixed_loss_dict,
                          criterion.weight_dict)
       THEN Raise("KeyError") /\ UNCHANGED <<all_loss_dict, metric, batches>>
       ELSE /\ all_loss_dict' = AggregateFrom(KeysOf(loss_dict), loss_dict,
                                    aug_loss_dict, mixed_loss_dict,
                                    criterion.weight_dict, EmptyDict)
            /\ metric' = all_loss_dict'
            /\ batches' = batches + 1
            /\ Goto("f_break")
    /\ UNCHANGED <<args, loss_dict, aug_loss_dict, mixed_loss_dict, losses,
                   aug_losses, mix_losses, blendLocals, param_groups, grads,
                   cur_iteration, bi, samples, visual_dict, ops, steps,
                   step_log, dumps, predVars, evalVars>>

(* Faulty variant of FiestaBudgetReached: the test looks at the counter    *)
(* the batch would leave, as train_one_epoch does.                         *)
FiestaBudgetAfterIncrement(it, budget) == it + 1 >= budget /\ budget > 0

(* Line 212: the budget test of the FIESTA runner, on the counter the      *)
(* batch was processed with.                                               *)
FiestaBudgetReached(it, budget) == it >= budget /\ budget > 0

(* Lines 212-213. *)
FiestaBreak ==
    /\ fn = "train_one_epoch_FIESTA" /\ pc = "f_break"
    /\ IF FiestaBudgetReached(cur_iteration, max_iteration)
       THEN Goto("f_end")
       ELSE Goto("f_dump")
    /\ UNCHANGED <<trainVars, predVars, evalVars>>

(* Line 215: whether the batch's snapshot is written.                      *)
WritesSnapshot(dir, it) == dir # NoneStr /\ it % visual_freq = 0

(* Lines 215-230: the snapshot folder and figure of this iteration.        *)
FiestaDump ==
    /\ fn = "train_one_epoch_FIESTA" /\ pc = "f_dump"
    /\ dumps' = IF WritesSnapshot(visdir, cur_iteration)
                THEN dumps \cup {[it |-> cur_iteration, panels |-> visual_dict]}
                ELSE dumps
    /\ Goto("f_inc")
    /\ UNCHANGED <<args, lossLocals, blendLocals, param_groups, grads,
                   cur_iteration, bi, samples, visual_dict, ops, steps, batches,
                   step_log, predVars, evalVars>>

(* Line 231. *)
FiestaIncrement ==
    /\ fn = "train_one_epoch_FIESTA" /\ pc = "f_inc"
    /\ cur_iteration' = cur_iteration + 1
    /\ Goto("f_for")
    /\ UNCHANGED <<args, lossLocals, blendLocals, param_groups, grads, bi,
                   samples, visual_dict, ops, steps, batches, step_log, dumps,
                   predVars, evalVars>>

(* Line 114, loader exhausted. *)
FiestaExhausted ==
    /\ fn = "train_one_epoch_FIESTA" /\ pc = "f_for"
    /\ bi >= Len(data_loader)
    /\ Goto("f_end")
    /\ UNCHANGED <<trainVars, predVars, evalVars>>

(* Lines 233-235: aug_loss_dict is unbound when no batch was processed.    *)
FiestaEnd ==
    /\ fn = "train_one_epoch_FIESTA" /\ pc = "f_end"
    /\ IF aug_loss_dict = None
       THEN Raise("UnboundLocalError")
       ELSE Return(<<cur_iteration, aug_loss_dict>>)
    /\ UNCHANGED <<trainVars, predVars, evalVars>>

NextFiesta ==
    \/ FiestaFetch
    \/ FiestaZeroGrad
    \/ FiestaCleanLoss
    \/ FiestaCleanBackward
    \/ FiestaAugLoss
    \/ FiestaAugBackward
    \/ FiestaBlend
    \/ FiestaMixLoss
    \/ FiestaMixBackward
    \/ FiestaStep
    \/ FiestaAggregate
    \/ FiestaBreak
    \/ FiestaDump
    \/ FiestaIncrement
    \/ FiestaExhausted
    \/ FiestaEnd

(***************************************************************************)
(* Inputs of the training runners.                                         *)
(***************************************************************************)

(* A batch: pixel p of the clean image, of its augmented view and of the   *)
(* label map (N, H and W flattened into 1..NPix).                          *)
CleanImage == [p \in 1..NPix |-> p]
AugImage == [p \in 1..NPix |-> 2 * p + 1]
Batch(labels) == [images |-> CleanImage, aug_images |-> AugImage, labels |-> labels]
PlainLabels == [p \in 1..NPix |-> IF p = 1 THEN 1 ELSE 0]
PlainUG == [p \in 1..NPix |-> UGScale]

Starts == (0..MaxStart) \cup ((visual_freq - 1)..(visual_freq - 1 + MaxStart))
Budgets == {-1} \cup {s + d : s \in Starts, d \in 0..1}

(* Loss dicts and weight tables over the loss names.                       *)
LossDicts == UNION {[K -> 1..MaxLossVal] : K \in (SUBSET Keys) \ {{}}}
WeightDicts == UNION {[K -> 1..MaxWeight] : K \in SUBSET Keys}

(* A criterion whose three branches return fixed values: name number i is  *)
(* worth i, i + 1 and i + 2 in the clean, augmented and mixed branch.      *)
KeyIndex(k) == CHOOSE i \in 1..Len(KeyOrder) : KeyOrder[i] = k
PlainOut(K) ==
    [br \in Branches |->
        [k \in K |-> KeyIndex(k) + (CASE br = "clean" -> 0 [] br = "aug" -> 1 [] OTHER -> 2)]]
PlainCriteria(n) ==
    {[weight_dict |-> [k \in WK |-> MaxWeight], out |-> [b \in 1..n |-> PlainOut(LK)]] :
        <<LK, WK>> \in {<<Keys, Keys>>, <<Keys, {KeyOrder[1]}>>, <<{KeyOrder[1]}, {}>>}}

OneGroup == << [lr |-> <<1, 1>>, lr_scale |-> 1] >>
GroupLists ==
    UNION {[1..n -> {[lr |-> <<1, 1>>, lr_scale |-> s] : s \in 1..2}] : n \in 1..MaxGroups}

TrainLocalsInit ==
    /\ pc \in {"warm_for", "epoch_for", "f_for"}
    /\ pc = (CASE fn = "train_warm_up" -> "warm_for"
               [] fn = "train_one_epoch" -> "epoch_for"
               [] OTHER -> "f_for")
    /\ err = NoneStr /\ ret = None
    /\ grads = {} /\ bi = 0 /\ samples = None
    /\ loss_dict = None /\ aug_loss_dict = None /\ mixed_loss_dict = None
    /\ losses = None /\ aug_losses = None /\ mix_losses = None
    /\ all_loss_dict = None /\ visual_dict = None
    /\ UG = None /\ coverage = None /\ mixed_var = None /\ mix_rule = NoneStr
    /\ ops = <<>> /\ steps = 0 /\ batches = 0 /\ step_log = <<>> /\ dumps = {}
    /\ metric = None

PredIdle ==
    /\ test_loader = <<>> /\ save_prediction = FALSE /\ idx = 0
    /\ slice_idx = None /\ scan_id_full = None /\ nframe = None
    /\ heap = <<>> /\ curr_pred = 0 /\ curr_gth = 0
    /\ out_prediction_list = EmptyDict

EvalIdle ==
    /\ vol_list = <<>> /\ nclass = 2 /\ dsc_table = <<>>
    /\ tables_by_domain = EmptyDict /\ domain_order = <<>> /\ error_dict = EmptyDict

(* train_warm_up(model, criterion, data_loader, optimizer, device,         *)
(* learning_rate, warmup_iteration).                                       *)
InitWarm ==
    /\ fn = "train_warm_up"
    /\ warmup_iteration \in 1..MaxWarmup
    /\ learning_rate \in 1..2
    /\ param_groups \in GroupLists
    /\ \E n \in 0..MaxBatches :
         /\ data_loader = [b \in 1..n |-> Batch(PlainLabels)]
         /\ ug_out = [b \in 1..n |-> PlainUG]
         /\ criterion \in PlainCriteria(n)
    /\ cur_iteration = 0 /\ start_iteration = 0 /\ max_iteration = -1
    /\ grad_scaler = FALSE /\ visdir = NoneStr

(* train_one_epoch(..., epoch, cur_iteration, max_iteration, grad_scaler). *)
InitEpoch ==
    /\ fn = "train_one_epoch"
    /\ warmup_iteration = 0 /\ learning_rate = 1 /\ param_groups = OneGroup
    /\ \E n \in 0..MaxBatches :
         /\ data_loader = [b \in 1..n |-> Batch(PlainLabels)]
         /\ ug_out = [b \in 1..n |-> PlainUG]
         /\ criterion \in PlainCriteria(n)
    /\ start_iteration \in Starts /\ cur_iteration = start_iteration
    /\ max_iteration \in Budgets
    /\ grad_scaler \in BOOLEAN /\ visdir = NoneStr

(* train_one_epoch_FIESTA(..., epoch, cur_iteration, max_iteration, visdir). *)
InitFiesta ==
    /\ fn = "train_one_epoch_FIESTA"
    /\ warmup_iteration = 0 /\ learning_rate = 1 /\ param_groups = OneGroup
    /\ \E n \in 0..MaxBatches :
         /\ data_loader = [b \in 1..n |-> Batch(PlainLabels)]
         /\ ug_out = [b \in 1..n |-> PlainUG]
         /\ criterion \in PlainCriteria(n)
    /\ start_iteration \in Starts /\ cur_iteration = start_iteration
    /\ max_iteration \in Budgets
    /\ grad_scaler = FALSE /\ visdir \in {NoneStr, "visdir"}

(* One batch through train_warm_up or train_one_epoch, for every loss dict *)
(* and weight table.                                                       *)
InitLossStd ==
    /\ fn \in {"train_warm_up", "train_one_epoch"}
    /\ warmup_iteration = 1 /\ learning_rate = 1 /\ param_groups = OneGroup
    /\ data_loader = <<Batch(PlainLabels)>> /\ ug_out = <<PlainUG>>
    /\ \E L \in LossDicts, W \in WeightDicts :
         criterion = [weight_dict |-> W, out |-> <<[br \in {"clean"} |-> L]>>]
    /\ cur_iteration = 0 /\ start_iteration = 0 /\ max_iteration = -1
    /\ grad_scaler = FALSE /\ visdir = NoneStr

(* One batch through train_one_epoch_FIESTA, for every weight table and    *)
(* every three loss dicts over the criterion's loss names.                 *)
InitLossFiesta ==
    /\ fn = "train_one_epoch_FIESTA"
    /\ warmup_iteration = 0 /\ learning_rate = 1 /\ param_groups = OneGroup
    /\ data_loader = <<Batch(PlainLabels)>> /\ ug_out = <<PlainUG>>
    /\ \E K \in (SUBSET Keys) \ {{}}, W \in WeightDicts :
         \E o \in [Branches -> [K -> 1..MaxLossVal]] :
             criterion = [weight_dict |-> W, out |-> <<o>>]
    /\ cur_iteration = 0 /\ start_iteration = 0 /\ max_iteration = -1
    /\ grad_scaler = FALSE /\ visdir = NoneStr

(* One batch through train_one_epoch_FIESTA, for every label map and every *)
(* guidance map.                                                           *)
InitBlend ==
    /\ fn = "train_one_epoch_FIESTA"
    /\ warmup_iteration = 0 /\ learning_rate = 1 /\ param_groups = OneGroup
    /\ \E lbl \in [1..NPix -> 0..MaxLabel] : data_loader = <<Batch(lbl)>>
    /\ \E ug \in [1..NPix -> 0..UGScale] : ug_out = <<ug>>
    /\ criterion = [weight_dict |-> [k \in Keys |-> MaxWeight],
                    out |-> <<PlainOut(Keys)>>]
    /\ cur_iteration = 0 /\ start_iteration = 0 /\ max_iteration = -1
    /\ grad_scaler = FALSE /\ visdir = NoneStr

(***************************************************************************)
(* prediction_wrapper                                                      *)
(***************************************************************************)

(* Scan identifiers are character sequences, "<domain>_<patient>".         *)
Digits == <<"1", "2", "3", "4", "5", "6", "7", "8", "9">>
DomainNames == <<"A", "B", "C">>
ScanId(d, i) == <<DomainNames[d], "_", Digits[i]>>

(* What the loader and the model give for slice j of a scan: the slice,    *)
(* its label map and the argmax of the model's logits on it.               *)
ImgOf(id, j) == <<"img", id, j>>
GthOf(id, j) == <<"gth", id, j>>
ArgmaxOf(img) == <<"argmax", img>>

(* Line 284-285: a zero-filled [nframe, nx, ny] tensor.                    *)
ZeroRow == <<"zeros">>
Zeros(n) == [j \in 1..n |-> ZeroRow]

(* Faulty variant of PredBufferId: one prediction buffer serves every scan. *)
ReusedPredBuffer(h) == 1

(* Lines 284-285: torch.Tensor(...) makes a new tensor at every scan       *)
(* start; a tensor is identified by its position in the heap, and a name   *)
(* not yet bound to a tensor holds 0.                                      *)
PredBufferId(h) == Len(h) + 1
GthBufferId(h) == Len(h) + 2

(* Lines 295-296: the row written for the 0-based slice index.             *)
RowOf(si) == si + 1

(* Line 275. *)
PredFetch ==
    /\ fn = "prediction_wrapper" /\ pc = "p_for"
    /\ idx < Len(test_loader)
    /\ idx' = idx + 1
    /\ Goto("p_start")
    /\ UNCHANGED <<trainVars, evalVars, test_loader, save_prediction, slice_idx,
                   scan_id_full, nframe, heap, curr_pred, curr_gth,
                   out_prediction_list>>

(* Lines 276-286: a scan starts; its entry and fresh buffers are made.     *)
PredStart ==
    /\ fn = "prediction_wrapper" /\ pc = "p_start"
    /\ LET batch == test_loader[idx] IN
         IF batch.is_start
         THEN /\ slice_idx' = 0
              /\ scan_id_full' = batch.scan_id[1]
              /\ out_prediction_list' =
                    (batch.scan_id[1] :> EmptyDict) @@ out_prediction_list
              /\ nframe' = batch.nframe
              /\ curr_pred' = PredBufferId(heap)
              /\ curr_gth' = GthBufferId(heap)
              /\ heap' = heap \o <<Zeros(batch.nframe), Zeros(batch.nframe)>>
         ELSE UNCHANGED <<slice_idx, scan_id_full, out_prediction_list, nframe,
                          curr_pred, curr_gth, heap>>
    /\ Goto("p_assert")
    /\ UNCHANGED <<trainVars, evalVars, test_loader, save_prediction, idx>>

(* Line 288. *)
PredAssert ==
    /\ fn = "prediction_wrapper" /\ pc = "p_assert"
    /\ IF test_loader[idx].nb = 1 THEN Goto("p_write") ELSE Raise("AssertionError")
    /\ UNCHANGED <<trainVars, evalVars, predVars>>

(* Lines 290-298: the slice's prediction and label go to row slice_idx of  *)
(* the current buffers, then slice_idx is incremented.                     *)
PredWrite ==
    /\ fn = "prediction_wrapper" /\ pc = "p_write"
    /\ LET batch == test_loader[idx] IN
         IF curr_pred = 0
         THEN Raise("UnboundLocalError") /\ UNCHANGED <<heap, slice_idx>>
         ELSE IF RowOf(slice_idx) > Len(heap[curr_pred])
         THEN Raise("IndexError") /\ UNCHANGED <<heap, slice_idx>>
         ELSE /\ heap' = [heap EXCEPT
                            ![curr_pred][RowOf(slice_idx)] = ArgmaxOf(batch.images),
                            ![curr_gth][RowOf(slice_idx)] = batch.labels]
              /\ slice_idx' = slice_idx + 1
              /\ Goto("p_end")
    /\ UNCHANGED <<trainVars, evalVars, test_loader, save_prediction, idx,
                   scan_id_full, nframe, curr_pred, curr_gth, out_prediction_list>>

(* Lines 300-309: the scan's buffers are stored under its id at is_end.    *)
PredFinalize ==
    /\ fn = "prediction_wrapper" /\ pc = "p_end"
    /\ out_prediction_list' =
         IF test_loader[idx].is_end
         THEN [out_prediction_list EXCEPT
                 ![scan_id_full] = [pred |-> curr_pred, gth |-> curr_gth]]
         ELSE out_prediction_list
    /\ Goto("p_for")
    /\ UNCHANGED <<trainVars, evalVars, test_loader, save_prediction, idx,
                   slice_idx, scan_id_full, nframe, heap, curr_pred, curr_gth>>

(* Lines 311-312: the loop is over; the mapping goes to eval_list_wrapper. *)
PredExhausted ==
    /\ fn = "prediction_wrapper" /\ pc = "p_for"
    /\ idx >= Len(test_loader)
    /\ Goto("p_eval")
    /\ UNCHANGED <<trainVars, evalVars, predVars>>

(* Lines 313-319: the mapping is dropped unless save_prediction.           *)
PredReturn ==
    /\ fn = "prediction_wrapper" /\ pc = "p_eval"
    /\ out_prediction_list' = IF save_prediction THEN out_prediction_list ELSE <<>>
    /\ Return(out_prediction_list')
    /\ UNCHANGED <<trainVars, evalVars, test_loader, save_prediction, idx,
                   slice_idx, scan_id_full, nframe, heap, curr_pred, curr_gth>>

NextPred ==
    \/ PredFetch
    \/ PredStart
    \/ PredAssert
    \/ PredWrite
    \/ PredFinalize
    \/ PredExhausted
    \/ PredReturn

TrainIdle ==
    /\ data_loader = <<>> /\ ug_out = <<>>
    /\ criterion = [weight_dict |-> EmptyDict, out |-> <<>>]
    /\ learning_rate = 1 /\ warmup_iteration = 0 /\ param_groups = OneGroup
    /\ cur_iteration = 0 /\ start_iteration = 0 /\ max_iteration = -1
    /\ grad_scaler = FALSE /\ visdir = NoneStr
    /\ err = NoneStr /\ ret = None
    /\ grads = {} /\ bi = 0 /\ samples = None
    /\ loss_dict = None /\ aug_loss_dict = None /\ mixed_loss_dict = None
    /\ losses = None /\ aug_losses = None /\ mix_losses = None
    /\ all_loss_dict = None /\ visual_dict = None
    /\ UG = None /\ coverage = None /\ mixed_var = None /\ mix_rule = NoneStr
    /\ ops = <<>> /\ steps = 0 /\ batches = 0 /\ step_log = <<>> /\ dumps = {}
    /\ metric = None

(* The batches of one scan: nframe slices in order, batch size 1, is_start *)
(* on the first and is_end on the last.                                    *)
ScanBatches(id, n) ==
    [j \in 1..n |->
        [is_start |-> j = 1, is_end |-> j = n, scan_id |-> <<id>>, nframe |-> n,
         nb |-> 1, images |-> ImgOf(id, j), labels |-> GthOf(id, j)]]

RECURSIVE Flatten(_)
Flatten(ss) == IF ss = <<>> THEN <<>> ELSE Head(ss) \o Flatten(Tail(ss))

(* Scan i of the stream: its id is distinct from every other scan's.       *)
StreamScanId(i) == ScanId(((i - 1) % Len(DomainNames)) + 1, i)

InitPred ==
    /\ fn = "prediction_wrapper" /\ pc = "p_for"
    /\ \E n \in 0..MaxScans : \E frames \in [1..n -> 1..MaxFrames] :
         test_loader = Flatten([i \in 1..n |-> ScanBatches(StreamScanId(i), frames[i])])
    /\ save_prediction \in BOOLEAN
    /\ idx = 0 /\ slice_idx = None /\ scan_id_full = None /\ nframe = None
    /\ heap = <<>> /\ curr_pred = 0 /\ curr_gth = 0
    /\ out_prediction_list = EmptyDict
    /\ TrainIdle
    /\ EvalIdle

SpecPred == InitPred /\ [][NextPred]_vars

(***************************************************************************)
(* eval_list_wrapper                                                       *)
(***************************************************************************)

(* str.split(sep) on a character sequence.                                 *)
RECURSIVE SplitAcc(_, _, _, _)
SplitAcc(s, sep, cur, acc) ==
    IF s = <<>> THEN Append(acc, cur)
    ELSE IF Head(s) = sep THEN SplitAcc(Tail(s), sep, <<>>, Append(acc, cur))
    ELSE SplitAcc(Tail(s), sep, Append(cur, Head(s)), acc)
Split(s, sep) == SplitAcc(s, sep, <<>>, <<>>)

(* Scores are in units of 1/ScoreScale; np.mean of no value is nan.        *)
NpMean(xs) == IF xs = <<>> THEN NaN ELSE <<SeqSum(xs), Len(xs) * ScoreScale>>

RECURSIVE RatSum(_)
RatSum(rs) == IF rs = <<>> THEN <<0, 1>> ELSE RatAdd(Head(rs), RatSum(Tail(rs)))

(* np.mean of a list of means.                                             *)
NpMeanOfMeans(ms) ==
    IF ms = <<>> \/ \E i \in 1..Len(ms) : ms[i] = NaN THEN NaN
    ELSE RatDivInt(RatSum(ms), Len(ms))

(* table[:, organ] and table[:, 1:] (0-based columns).                     *)
Column(table, organ) == [i \in 1..Len(table) |-> table[i][organ + 1]]
ForegroundEntries(table) ==
    Flatten([i \in 1..Len(table) |-> SubSeq(table[i], 2, Len(table[i]))])

(* Faulty variant of DomainMeanScore: the background column is averaged in. *)
DomainMeanWithBackground(domain_scores) == NpMean(Flatten(domain_scores))

(* Line 364: the mean score of one domain.                                 *)
DomainMeanScore(domain_scores) == NpMean(ForegroundEntries(domain_scores))

(* Line 370: the summary over the per-domain means.                        *)
OverallByDomain(overall_by_domain) == NpMeanOfMeans(overall_by_domain)

(* Lines 328-331. *)
EvalSetup ==
    /\ fn = "eval_list_wrapper" /\ pc = "e_setup"
    /\ dsc_table' = [i \in 1..Len(vol_list) |-> [c \in 1..nclass |-> ScoreScale]]
    /\ tables_by_domain' = EmptyDict
    /\ domain_order' = <<>>
    /\ idx' = 0
    /\ Goto("e_scan")
    /\ UNCHANGED <<trainVars, vol_list, nclass, error_dict, test_loader,
                   save_prediction, slice_idx, scan_id_full, nframe, heap,
                   curr_pred, curr_gth, out_prediction_list>>

(* Lines 332-346: one scan; its id is split into domain and patient, its   *)
(* per-class scores join the domain's table and row idx of dsc_table.      *)
EvalScan ==
    /\ fn = "eval_list_wrapper" /\ pc = "e_scan"
    /\ idx < Len(vol_list)
    /\ LET item == vol_list[idx + 1]
           parts == Split(item.scan_id, "_")
           domain == parts[1]
           old == IF domain \in DOMAIN tables_by_domain
                  THEN tables_by_domain[domain]
                  ELSE [scores |-> <<>>, scan_ids |-> <<>>]
       IN IF Len(parts) # 2
          THEN Raise("ValueError")
               /\ UNCHANGED <<tables_by_domain, domain_order, dsc_table, idx>>
          ELSE /\ tables_by_domain' =
                     (domain :> [scores |-> Append(old.scores, item.dices),
                                 scan_ids |-> Append(old.scan_ids, item.scan_id)])
                     @@ tables_by_domain
               /\ domain_order' = IF domain \in DOMAIN tables_by_domain
                                  THEN domain_order ELSE Append(domain_order, domain)
               /\ dsc_table' = [dsc_table EXCEPT ![idx + 1] = item.dices]
               /\ idx' = idx + 1
               /\ Goto("e_scan")
    /\ UNCHANGED <<trainVars, vol_list, nclass, error_dict, test_loader,
                   save_prediction, slice_idx, scan_id_full, nframe, heap,
                   curr_pred, curr_gth, out_prediction_list>>

(* Lines 349-357: per-class means over all scans and the scan-weighted     *)
(* overall mean without the background column.                             *)
EvalOrgans ==
    /\ fn = "eval_list_wrapper" /\ pc = "e_scan"
    /\ idx >= Len(vol_list)
    /\ error_dict' =
         (<<"overall">> :> NpMean(ForegroundEntries(dsc_table)))
         @@ [k \in {<<"label", organ>> : organ \in 0..(nclass - 1)} |->
                NpMean(Column(dsc_table, k[2]))]
    /\ Goto("e_domains")
    /\ UNCHANGED <<trainVars, vol_list, nclass, dsc_table, tables_by_domain,
                   domain_order, predVars>>

(* Lines 360-370: one mean per domain, then their mean.                    *)
EvalDomains ==
    /\ fn = "eval_list_wrapper" /\ pc = "e_domains"
    /\ LET overall_by_domain ==
               [i \in 1..Len(domain_order) |->
                   DomainMeanScore(tables_by_domain[domain_order[i]].scores)]
       IN error_dict' =
            (<<"overall_by_domain">> :> OverallByDomain(overall_by_domain))
            @@ [k \in {<<"domain", domain_order[i], "overall">> : i \in 1..Len(domain_order)} |->
                   DomainMeanScore(tables_by_domain[k[2]].scores)]
            @@ [k \in {<<"domain", domain_order[i], "table">> : i \in 1..Len(domain_order)} |->
                   tables_by_domain[k[2]].scores]
            @@ error_dict
    /\ Goto("e_ret")
    /\ UNCHANGED <<trainVars, vol_list, nclass, dsc_table, tables_by_domain,
                   domain_order, predVars>>

(* Line 373. *)
EvalReturn ==
    /\ fn = "eval_list_wrapper" /\ pc = "e_ret"
    /\ Return(<<error_dict, dsc_table, domain_order>>)
    /\ UNCHANGED <<trainVars, evalVars, predVars>>

NextEval ==
    \/ EvalSetup
    \/ EvalScan
    \/ EvalOrgans
    \/ EvalDomains
    \/ EvalReturn

(* The domains of a scan list are named in the order of first appearance.  *)
FirstAppearance(doms) ==
    \A i \in 1..Len(doms) :
        doms[i] = 1 \/ \E j \in 1..(i - 1) : doms[j] >= doms[i] - 1

(* vol_list: n scans with distinct ids, each with the per-class scores     *)
(* compute_meandice gives for it: the background column, then one class.   *)
InitEval ==
    /\ fn = "eval_list_wrapper" /\ pc = "e_setup"
    /\ nclass = 2
    /\ \E n \in 0..MaxVols :
         \E doms \in [1..n -> 1..Len(DomainNames)], fg \in [1..n -> 0..ScoreScale] :
            /\ FirstAppearance(doms)
            /\ vol_list = [i \in 1..n |->
                  [scan_id |-> ScanId(doms[i], i), dices |-> <<ScoreScale, fg[i]>>]]
    /\ dsc_table = <<>> /\ tables_by_domain = EmptyDict /\ domain_order = <<>>
    /\ error_dict = EmptyDict
    /\ PredIdle
    /\ TrainIdle

SpecEval == InitEval /\ [][NextEval]_vars

Init ==
    /\ \/ InitWarm
       \/ InitEpoch
       \/ InitFiesta
       \/ InitLossStd
       \/ InitLossFiesta
       \/ InitBlend
    /\ TrainLocalsInit
    /\ PredIdle
    /\ EvalIdle

Next ==
    \/ NextWarm
    \/ NextEpoch
    \/ NextFiesta

Spec == Init /\ [][Next]_vars

(***************************************************************************)
(* Properties.                                                             *)
(***************************************************************************)

Runners == {"train_warm_up", "train_one_epoch", "train_one_epoch_FIESTA"}
Count(s, x) == Cardinality({i \in 1..Len(s) : s[i] = x})
LastStep == step_log[Len(step_log)]

BeforeStep ==
    pc \in {"warm_loss", "warm_zero", "warm_back", "warm_step",
            "epoch_loss", "epoch_zero", "epoch_back", "epoch_step",
            "f_zero", "f_clean_loss", "f_clean_back", "f_aug_loss", "f_aug_back",
            "f_blend", "f_mix_loss", "f_mix_back", "f_step"}
JustStepped == pc \in {"warm_check", "epoch_count", "f_aggregate"}
AfterMetric == pc \in {"f_break", "f_dump", "f_inc"}
BetweenBatches == pc \in {"warm_for", "epoch_for", "f_for", "epoch_end", "f_end", "returned"}

(* C1: in every runner a processed batch causes exactly one optimizer      *)
(* step; in train_one_epoch_FIESTA the batch's calls are zero_grad, clean  *)
(* backward, augmented backward, mixed backward, step, in this order, so   *)
(* the one step sees the gradients of all three branches.                  *)
C1_OneStepPerBatch ==
    fn \in Runners =>
      /\ Len(step_log) = steps
      /\ BeforeStep => (Count(ops, "step") = 0 /\ steps = batches)
      /\ JustStepped => (Count(ops, "step") = 1 /\ steps = batches + 1)
      /\ AfterMetric => (Count(ops, "step") = 1 /\ steps = batches)
      /\ BetweenBatches => steps = batches
      /\ pc = "raised" => (Count(ops, "step") = 0 /\ steps = batches)
      /\ (fn = "train_one_epoch_FIESTA" /\ (JustStepped \/ AfterMetric)) =>
            ops = <<"zero_grad", "backward_clean", "backward_aug", "backward_mix", "step">>
      /\ \A i \in 1..Len(step_log) :
            step_log[i].grads = IF fn = "train_one_epoch_FIESTA"
                                THEN {"clean", "aug", "mix"} ELSE {"clean"}

C1_Witness ==
    /\ fn = "train_one_epoch_FIESTA" /\ pc = "f_break" /\ steps = 2
    /\ LastStep.grads = {"clean", "aug", "mix"}

BudgetHit(t) == t >= max_iteration /\ max_iteration > 0
PastDump(i) == i < Len(step_log) \/ pc \in {"f_inc", "f_for", "f_end", "returned"}

(* C2: in train_one_epoch_FIESTA the budget test comes after the batch's   *)
(* step and metric update and before the snapshot and the increment: the   *)
(* batch on which it fires writes no snapshot and leaves the counter, so   *)
(* the returned counter is the one that batch was processed with; every    *)
(* other batch writes its snapshot under the counter it was processed with *)
(* (visdir set, counter a multiple of visual_freq) and then adds 1.        *)
C2_BreakBeforeDumpAndIncrement ==
    fn = "train_one_epoch_FIESTA" =>
      /\ Len(step_log) >= 1 => step_log[1].it = start_iteration
      /\ \A i \in 1..(Len(step_log) - 1) :
            ~BudgetHit(step_log[i].it) /\ step_log[i + 1].it = step_log[i].it + 1
      /\ \A d \in dumps :
            /\ visdir # NoneStr /\ d.it % visual_freq = 0 /\ ~BudgetHit(d.it)
            /\ \E i \in 1..Len(step_log) : step_log[i].it = d.it
      /\ \A i \in 1..Len(step_log) :
            (PastDump(i) /\ ~BudgetHit(step_log[i].it) /\ visdir # NoneStr
               /\ step_log[i].it % visual_freq = 0)
            => \E d \in dumps : d.it = step_log[i].it
      /\ pc \in {"f_break", "f_dump", "f_inc"} => cur_iteration = LastStep.it
      /\ pc \in {"f_end", "returned"} => batches = steps
      /\ pc = "returned" =>
            /\ Len(step_log) >= 1
            /\ ret[1] = IF BudgetHit(LastStep.it) THEN LastStep.it ELSE LastStep.it + 1
            /\ ~BudgetHit(LastStep.it) => Len(step_log) = Len(data_loader)

C2_Witness ==
    /\ fn = "train_one_epoch_FIESTA" /\ pc = "returned"
    /\ visdir # NoneStr /\ max_iteration = visual_freq
    /\ Len(step_log) = 2 /\ ret[1] = visual_freq /\ dumps = {}

(* C3: for a target W >= 1 and a non-empty loader, re-iterated when it has *)
(* fewer than W batches, train_warm_up steps with the counter 1, 2, .., W, *)
(* every group's lr being (i / W) * learning_rate * lr_scale at the step   *)
(* of iteration i, and returns exactly W.                                  *)
C3_WarmupExactlyW ==
    fn = "train_warm_up" =>
      /\ cur_iteration <= warmup_iteration
      /\ \A i \in 1..Len(step_log) :
            /\ step_log[i].it = i
            /\ \A g \in 1..Len(param_groups) :
                  RatEq(step_log[i].lr[g],
                        <<i * learning_rate * param_groups[g].lr_scale, warmup_iteration>>)
      /\ pc = "returned" =>
            (ret = warmup_iteration /\ steps = warmup_iteration /\ Len(data_loader) > 0)

C3_Witness ==
    /\ fn = "train_warm_up" /\ pc = "returned"
    /\ Len(data_loader) > 0 /\ Len(data_loader) < warmup_iteration
    /\ Len(param_groups) > 1 /\ ret = warmup_iteration

Min(a, b) == IF a < b THEN a ELSE b

(* C4 as stated: with max_iteration > 0 and a starting counter not above   *)
(* it, train_one_epoch returns a counter not above max_iteration after     *)
(* (returned - start) steps; with max_iteration <= 0 it processes every    *)
(* batch.                                                                  *)
C4_AsStated ==
    (fn = "train_one_epoch" /\ pc = "returned") =>
      /\ (max_iteration > 0 /\ start_iteration <= max_iteration) =>
            (ret <= max_iteration /\ steps = ret - start_iteration)
      /\ max_iteration <= 0 =>
            (ret = start_iteration + Len(data_loader) /\ steps = Len(data_loader))

(* C4, amended: with max_iteration > 0 and a starting counter below it,    *)
(* train_one_epoch stops as soon as the counter reaches max_iteration: it  *)
(* returns min(start + number of batches, max_iteration) after (returned - *)
(* start) steps; with max_iteration <= 0 it processes every batch and      *)
(* returns start + number of batches.                                      *)
C4_BudgetStopsEpoch ==
    fn = "train_one_epoch" =>
      /\ (max_iteration > 0 /\ start_iteration < max_iteration) =>
            cur_iteration <= max_iteration
      /\ pc = "returned" =>
            /\ (max_iteration > 0 /\ start_iteration < max_iteration) =>
                  /\ ret = Min(start_iteration + Len(data_loader), max_iteration)
                  /\ steps = ret - start_iteration
            /\ max_iteration <= 0 =>
                  (ret = start_iteration + Len(data_loader) /\ steps = Len(data_loader))

C4_Witness ==
    /\ fn = "train_one_epoch" /\ pc = "returned"
    /\ max_iteration > 0 /\ start_iteration < max_iteration
    /\ ret = max_iteration /\ steps < Len(data_loader)

RECURSIVE SumOver(_, _)
SumOver(S, f) ==
    IF S = {} THEN 0
    ELSE LET x == CHOOSE y \in S : TRUE IN f[x] + SumOver(S \ {x}, f)
Weighted(L, W) == [k \in DOMAIN L \cap DOMAIN W |-> L[k] * W[k]]
SharedNames == DOMAIN loss_dict \cap DOMAIN criterion.weight_dict

(* C5: in train_one_epoch_FIESTA each branch's total loss is the sum of    *)
(* L[k] * W[k] over the names in both L and W, a name of L missing from W  *)
(* raises nothing, and the record given to the metric logger holds exactly *)
(* k, k_aug and k_mix for the shared names k, with the three branches'     *)
(* values.                                                                 *)
C5_FilteredLossAndRecord ==
    fn = "train_one_epoch_FIESTA" =>
      /\ err # "KeyError"
      /\ pc \in {"f_clean_back", "f_aug_loss"} =>
            losses = SumOver(SharedNames, Weighted(loss_dict, criterion.weight_dict))
      /\ pc \in {"f_aug_back", "f_blend"} =>
            aug_losses = SumOver(DOMAIN aug_loss_dict \cap DOMAIN criterion.weight_dict,
                                 Weighted(aug_loss_dict, criterion.weight_dict))
      /\ pc \in {"f_mix_back", "f_step"} =>
            mix_losses = SumOver(DOMAIN mixed_loss_dict \cap DOMAIN criterion.weight_dict,
                                 Weighted(mixed_loss_dict, criterion.weight_dict))
      /\ AfterMetric =>
            /\ metric = all_loss_dict
            /\ DOMAIN all_loss_dict =
                  SharedNames \cup {Suffix(k, "_aug") : k \in SharedNames}
                              \cup {Suffix(k, "_mix") : k \in SharedNames}
            /\ \A k \in SharedNames :
                  /\ all_loss_dict[k] = loss_dict[k]
                  /\ all_loss_dict[Suffix(k, "_aug")] = aug_loss_dict[k]
                  /\ all_loss_dict[Suffix(k, "_mix")] = mixed_loss_dict[k]

C5_Witness ==
    /\ fn = "train_one_epoch_FIESTA" /\ pc = "f_break"
    /\ SharedNames # {} /\ DOMAIN loss_dict \ DOMAIN criterion.weight_dict # {}
    /\ loss_dict # aug_loss_dict /\ aug_loss_dict # mixed_loss_dict

(* C6: in train_warm_up and train_one_epoch the total loss is the sum of   *)
(* L[k] * W[k] over every name of L; a name missing from W fails the batch *)
(* with a lookup error before zero_grad, backward and step, so the failing *)
(* batch updates no parameter.                                             *)
C6_UnfilteredLossFailsFast ==
    fn \in {"train_warm_up", "train_one_epoch"} =>
      /\ pc \in {"warm_zero", "warm_back", "warm_step", "warm_check",
                 "epoch_zero", "epoch_back", "epoch_step", "epoch_count"} =>
            /\ DOMAIN loss_dict \subseteq DOMAIN criterion.weight_dict
            /\ losses = SumOver(DOMAIN loss_dict, Weighted(loss_dict, criterion.weight_dict))
      /\ pc = "raised" =>
            /\ err = "KeyError"
            /\ DOMAIN loss_dict \ DOMAIN criterion.weight_dict # {}
            /\ ops = <<>> /\ steps = batches /\ Len(step_log) = batches

C6_Witness ==
    /\ fn = "train_one_epoch" /\ pc = "raised" /\ err = "KeyError"
    /\ grad_scaler /\ SharedNames # {}

PostBlend ==
    pc \in {"f_mix_loss", "f_mix_back", "f_step", "f_aggregate", "f_break",
            "f_dump", "f_inc"}
Foreground == {p \in 1..Len(samples.labels) : samples.labels[p] >= 1}
BlendOf(p) ==
    <<samples.images[p] * UG[p] + samples.aug_images[p] * (UGScale - UG[p]), UGScale>>
SumOf(p) == <<samples.images[p] + samples.aug_images[p], 1>>

(* C9: train_one_epoch_FIESTA takes one blend decision per batch from      *)
(* coverage_ratio = sum(label_fg * UG) / count(label_fg = 1), label_fg     *)
(* being 1 wherever the label is 1 or more: below one half the mixed input *)
(* is clean * UG + aug * (1 - UG), at one half or above it is clean + aug, *)
(* and the one formula is applied to every pixel of the batch.             *)
C9_OneBlendDecision ==
    (fn = "train_one_epoch_FIESTA" /\ PostBlend) =>
      LET n == Cardinality(Foreground)
          t == SumOver(Foreground, UG)
      IN /\ UG = ug_out[bi]
         /\ n > 0 => (IsFinite(coverage) /\ RatEq(coverage, <<t, UGScale * n>>))
         /\ (n > 0 /\ 2 * t < UGScale * n) => mix_rule = "blend"
         /\ (n > 0 /\ 2 * t >= UGScale * n) => mix_rule = "sum"
         /\ mix_rule \in {"blend", "sum"}
         /\ mix_rule = "blend" =>
               \A p \in 1..Len(samples.labels) : RatEq(mixed_var[p], BlendOf(p))
         /\ mix_rule = "sum" =>
               \A p \in 1..Len(samples.labels) : RatEq(mixed_var[p], SumOf(p))

C9_Witness ==
    /\ fn = "train_one_epoch_FIESTA" /\ PostBlend /\ mix_rule = "blend"
    /\ \E p \in 1..Len(samples.labels) : samples.labels[p] > 1 /\ UG[p] > 0

NoForeground == \A p \in 1..Len(samples.labels) : samples.labels[p] = 0

(* C10: a batch of train_one_epoch_FIESTA without a foreground pixel is    *)
(* not aborted: the coverage ratio is the nan of 0/0, the comparison with  *)
(* one half is false, the mixed input is clean + aug, and the mixed        *)
(* backward pass and the optimizer step of the batch are executed.         *)
C10_NoForegroundTakesSum ==
    (fn = "train_one_epoch_FIESTA" /\ bi >= 1 /\ NoForeground) =>
      /\ PostBlend =>
            /\ coverage = NaN /\ mix_rule = "sum"
            /\ \A p \in 1..Len(samples.labels) : RatEq(mixed_var[p], SumOf(p))
      /\ (JustStepped \/ AfterMetric) =>
            (Count(ops, "backward_mix") = 1 /\ Count(ops, "step") = 1)
      /\ pc = "raised" => Count(ops, "backward_aug") = 0

C10_Witness ==
    /\ fn = "train_one_epoch_FIESTA" /\ pc = "f_inc" /\ NoForeground
    /\ coverage = NaN /\ mix_rule = "sum" /\ Count(ops, "step") = 1

StreamScanIds == {test_loader[i].scan_id[1] : i \in 1..Len(test_loader)}
SlicesOf(id) == SelectSeq(test_loader, LAMBDA b : b.scan_id[1] = id)
SlicesSoFar ==
    Cardinality({i \in 1..idx : test_loader[i].scan_id = test_loader[idx].scan_id})
Finalized(id) ==
    id \in DOMAIN out_prediction_list /\ out_prediction_list[id] # EmptyDict

(* C7: for a stream of scans with distinct ids, each giving nframe batches *)
(* of size 1 with is_start on the first and is_end on the last, slice_idx  *)
(* is 0 at the scan's start and grows by one per batch, and the mapping    *)
(* holds one entry per scan whose pred and gth buffers have nframe rows,   *)
(* row j being the argmax prediction and the label of the scan's slice j;  *)
(* a finalized buffer never receives another scan's slice.                 *)
C7_VolumesReassembled ==
    fn = "prediction_wrapper" =>
      /\ pc # "raised"
      /\ pc \in {"p_assert", "p_write"} => slice_idx = SlicesSoFar - 1
      /\ (pc = "p_assert" /\ test_loader[idx].is_start) => slice_idx = 0
      /\ (pc \in {"p_end", "p_for", "p_eval"} /\ idx >= 1) => slice_idx = SlicesSoFar
      /\ \A id \in DOMAIN out_prediction_list :
            Finalized(id) =>
              LET e == out_prediction_list[id]
                  sl == SlicesOf(id)
              IN /\ Len(heap[e.pred]) = sl[1].nframe /\ Len(heap[e.gth]) = sl[1].nframe
                 /\ Len(sl) = sl[1].nframe
                 /\ \A j \in 1..Len(sl) :
                       /\ heap[e.pred][j] = ArgmaxOf(sl[j].images)
                       /\ heap[e.gth][j] = sl[j].labels
      /\ pc = "p_eval" =>
            /\ DOMAIN out_prediction_list = StreamScanIds
            /\ \A id \in StreamScanIds : Finalized(id)

C7_Witness ==
    /\ fn = "prediction_wrapper" /\ pc = "p_eval"
    /\ Cardinality(DOMAIN out_prediction_list) >= 2
    /\ \A id \in StreamScanIds : Len(SlicesOf(id)) >= 2

DomainOfScan(i) == Split(vol_list[i].scan_id, "_")[1]
DomainsSeen == {DomainOfScan(i) : i \in 1..Len(vol_list)}
ScansIn(d) == {i \in 1..Len(vol_list) : DomainOfScan(i) = d}
FgTotal == [i \in 1..Len(vol_list) |-> SeqSum(SubSeq(vol_list[i].dices, 2, nclass))]
ExpectedDomainMean(d) ==
    <<SumOver(ScansIn(d), FgTotal), Cardinality(ScansIn(d)) * (nclass - 1) * ScoreScale>>
RECURSIVE RatSumOver(_)
RatSumOver(D) ==
    IF D = {} THEN <<0, 1>>
    ELSE LET d == CHOOSE x \in D : TRUE
         IN RatAdd(ExpectedDomainMean(d), RatSumOver(D \ {d}))
ExpectedByDomain == RatDivInt(RatSumOver(DomainsSeen), Cardinality(DomainsSeen))
ExpectedOverall ==
    <<SumOver(1..Len(vol_list), FgTotal), Len(vol_list) * (nclass - 1) * ScoreScale>>

(* Scans are grouped by the domain prefix of their id, a domain's score is *)
(* the mean of its scans' scores without the background column, overall is *)
(* the mean over all scans and overall_by_domain the unweighted mean of    *)
(* the per-domain means.                                                   *)
TwoLevelAveraging ==
    /\ DOMAIN tables_by_domain = DomainsSeen
    /\ \A d \in DomainsSeen :
          /\ tables_by_domain[d].scan_ids =
                [i \in 1..Len(SelectSeq(vol_list, LAMBDA v : Split(v.scan_id, "_")[1] = d)) |->
                    SelectSeq(vol_list, LAMBDA v : Split(v.scan_id, "_")[1] = d)[i].scan_id]
          /\ error_dict[<<"domain", d, "overall">>] # NaN
          /\ RatEq(error_dict[<<"domain", d, "overall">>], ExpectedDomainMean(d))
    /\ IF vol_list = <<>>
       THEN error_dict[<<"overall_by_domain">>] = NaN /\ error_dict[<<"overall">>] = NaN
       ELSE /\ error_dict[<<"overall_by_domain">>] # NaN
            /\ RatEq(error_dict[<<"overall_by_domain">>], ExpectedByDomain)
            /\ RatEq(error_dict[<<"overall">>], ExpectedOverall)

UnequalCounts ==
    \E d1, d2 \in DomainsSeen : Cardinality(ScansIn(d1)) # Cardinality(ScansIn(d2))
UnequalMeans ==
    \A d1, d2 \in DomainsSeen :
        d1 # d2 => ~RatEq(ExpectedDomainMean(d1), ExpectedDomainMean(d2))
ByDomainDiffers ==
    ~RatEq(error_dict[<<"overall_by_domain">>], error_dict[<<"overall">>])

(* C8 as stated: eval_list_wrapper averages in two levels, and             *)
(* overall_by_domain differs from the scan-weighted overall whenever the   *)
(* domains have unequal scan counts and unequal means.                     *)
C8_AsStated ==
    (fn = "eval_list_wrapper" /\ pc = "returned") =>
      /\ TwoLevelAveraging
      /\ (UnequalCounts /\ UnequalMeans) => ByDomainDiffers

(* C8, amended: eval_list_wrapper averages in two levels, and with exactly *)
(* two domains overall_by_domain differs from the scan-weighted overall    *)
(* whenever the two have unequal scan counts and unequal means.            *)
C8_TwoLevelAveraging ==
    (fn = "eval_list_wrapper" /\ pc = "returned") =>
      /\ TwoLevelAveraging
      /\ (Cardinality(DomainsSeen) = 2 /\ UnequalCounts /\ UnequalMeans) => ByDomainDiffers

C8_Witness ==
    /\ fn = "eval_list_wrapper" /\ pc = "returned"
    /\ Cardinality(DomainsSeen) = 2 /\ UnequalCounts /\ UnequalMeans
    /\ ByDomainDiffers

====
